---- MODULE Spec2Model ----
(***************************************************************************)
(* The SongSnaps order API (backend/server.py): the orders collection of   *)
(* the document store and the request handlers that insert, read, update   *)
(* and count its documents.                                                *)
(*                                                                         *)
(* The store is the only mutable state.  A document's position in the      *)
(* collection stands for its storage-internal _id (assigned on insert,     *)
(* never shown to clients).  Every handler but get_stats issues exactly    *)
(* one store call and is one action.  get_stats issues five count queries. *)
(* Under Spec the process of line 246 serves the requests: one event loop, *)
(* handlers that never await, so each request runs to completion and       *)
(* get_stats is one action.  Under SpecConcurrent the store has other      *)
(* writers (more workers, or other processes on the same database) and     *)
(* get_stats is one action per count query, so that their writes can reach *)
(* the store between two queries.  The store is assumed reachable: the     *)
(* handlers' catch-all 500 branches are not modelled.                      *)
(***************************************************************************)
EXTENDS Integers, Sequences, FiniteSets, TLC

VARIABLES
    orders,    \* orders_collection: the stored documents, in insertion order
    created,   \* history: the order_doc each insert_one was given, by position
    last,      \* the most recent response sent (handler, inputs, status, body)
    stats      \* the get_stats request in flight: its position and counts so far

vars == <<orders, created, last, stats>>

----------------------------------------------------------------------------
(* Bounds of the model.                                                    *)

\* Orders are created while the store holds fewer documents than this.
MaxOrders == 2
\* datetime.now() reads a value in 0..MaxTime: the wall clock at the store's
\* resolution, so two calls can read the same value, and not assumed to be
\* monotonic.
MaxTime == 1
\* get_orders is called with limit in 0..MaxLimit.
MaxLimit == 2

Times == 0..MaxTime

\* uuid.uuid4().hex[:8].upper() draws from 16^8 values; two stand for them.
OrderIds == {"SS-0000000A", "SS-0000000B"}

----------------------------------------------------------------------------
(* Constants of the program.                                               *)

PLAN_DETAILS ==
    [snap |->
        [name |-> "Snap", price |-> "$3.99",
         description |-> "1 full-length custom song with cover art",
         delivery |-> "2 hours",
         features |-> <<"1 custom song", "Simple cover art",
                        "2-hour delivery", "No edits">>],
     snappack |->
        [name |-> "Snap Pack", price |-> "$9.99",
         description |-> "3 songs over 7 days",
         delivery |-> "48 hours each",
         features |-> <<"3 custom songs", "Different moods/vibes",
                        "Cover art for each", "48-hour delivery">>],
     creator |->
        [name |-> "Creator Pack", price |-> "$24.99/mo",
         description |-> "Up to 10 songs per month with extras",
         delivery |-> "Priority",
         features |-> <<"Up to 10 songs/month", "AI stems", "Instrumentals",
                        "TikTok clips", "Priority delivery">>]]

\* The plan codes a request body may carry: the catalog's keys and one other.
PlanInputs == DOMAIN PLAN_DETAILS \cup {"vip"}

INITIAL_STATUS == "payment_confirmed"
WHATSAPP_NUMBER == "+1234567890"

----------------------------------------------------------------------------
(* The store's operations (pymongo Collection), as the handlers use them.  *)

\* A query document matches a stored document that has each queried field
\* with the queried value; the empty query matches everything.
Matches(doc, query) ==
    \A k \in DOMAIN query : k \in DOMAIN doc /\ doc[k] = query[k]

MatchingIds(coll, query) ==
    {i \in DOMAIN coll : Matches(coll[i], query)}

\* A store that keys documents by orderId: an insert replaces the document
\* that has the same orderId.
InsertOneKeyed(coll, doc) ==
    IF \E i \in DOMAIN coll : coll[i].orderId = doc.orderId
    THEN [coll EXCEPT ![CHOOSE i \in DOMAIN coll :
                            coll[i].orderId = doc.orderId] = doc]
    ELSE Append(coll, doc)

\* insert_one: the document is added; no index constrains orderId.  The
\* write is acknowledged (inserted_id is set), so the handler's 500 branch
\* of line 123 is not taken.
InsertOne(coll, doc) == Append(coll, doc)

\* find_one: the position of the first matching document in the store's
\* natural (insertion) order, 0 for None.
FindOne(coll, query) ==
    IF MatchingIds(coll, query) = {} THEN 0
    ELSE CHOOSE i \in MatchingIds(coll, query) :
            \A j \in MatchingIds(coll, query) : i <= j

\* update_one with upsert=True: a document is inserted when none matches.
UpdateOneUpsert(coll, query, set) ==
    IF FindOne(coll, query) = 0 THEN Append(coll, set @@ query)
    ELSE [coll EXCEPT ![FindOne(coll, query)] = set @@ @]

\* update_one with $set: the first matching document gets the fields of
\* `set` (added or overwritten); nothing is inserted when none matches.
UpdateOne(coll, query, set) ==
    IF FindOne(coll, query) = 0 THEN coll
    ELSE [coll EXCEPT ![FindOne(coll, query)] = set @@ @]

MatchedCount(coll, query) ==
    IF FindOne(coll, query) = 0 THEN 0 ELSE 1

CountDocuments(coll, query) == Cardinality(MatchingIds(coll, query))

Min(a, b) == IF a <= b THEN a ELSE b

\* sort("timestamp", 1): oldest first.
SortAscending(coll, ids) ==
    {s \in [1..Cardinality(ids) -> ids] :
        /\ \A a, b \in DOMAIN s : a # b => s[a] # s[b]
        /\ \A a, b \in DOMAIN s :
              a < b => coll[s[a]].timestamp <= coll[s[b]].timestamp}

\* sort("timestamp", -1): the matching documents' positions in descending
\* timestamp order; documents with equal timestamps come in any order.
SortDescending(coll, ids) ==
    {s \in [1..Cardinality(ids) -> ids] :
        /\ \A a, b \in DOMAIN s : a # b => s[a] # s[b]
        /\ \A a, b \in DOMAIN s :
              a < b => coll[s[a]].timestamp >= coll[s[b]].timestamp}

\* Cursor.limit(n): at most n results; a limit of 0 is no limit.
Limit(s, limit) ==
    IF limit = 0 THEN s ELSE SubSeq(s, 1, Min(limit, Len(s)))

\* list(find(query).sort("timestamp", -1).limit(limit)): the possible result
\* lists, each a sequence of documents.
FindSortLimit(coll, query, limit) ==
    {[n \in DOMAIN Limit(s, limit) |-> coll[Limit(s, limit)[n]]] :
        s \in SortDescending(coll, MatchingIds(coll, query))}

----------------------------------------------------------------------------
(* The handlers.                                                           *)

\* An order_doc whose planName is the plan code, not the catalog's name.
OrderDocCodeAsName(plan, order_id, now) ==
    [orderId        |-> order_id,
     plan           |-> plan,
     planName       |-> plan,
     price          |-> PLAN_DETAILS[plan].price,
     description    |-> PLAN_DETAILS[plan].description,
     delivery       |-> PLAN_DETAILS[plan].delivery,
     features       |-> PLAN_DETAILS[plan].features,
     timestamp      |-> now,
     status         |-> INITIAL_STATUS,
     whatsappNumber |-> WHATSAPP_NUMBER,
     fulfilled      |-> FALSE]

\* order_doc of generate_order: the catalog entry's attributes are copied.
OrderDoc(plan, order_id, now) ==
    [orderId        |-> order_id,
     plan           |-> plan,
     planName       |-> PLAN_DETAILS[plan].name,
     price          |-> PLAN_DETAILS[plan].price,
     description    |-> PLAN_DETAILS[plan].description,
     delivery       |-> PLAN_DETAILS[plan].delivery,
     features       |-> PLAN_DETAILS[plan].features,
     timestamp      |-> now,
     status         |-> INITIAL_STATUS,
     whatsappNumber |-> WHATSAPP_NUMBER,
     fulfilled      |-> FALSE]

\* OrderResponse: the projection generate_order returns.
OrderResponse(plan, doc) ==
    [orderId        |-> doc.orderId,
     plan           |-> plan,
     price          |-> PLAN_DETAILS[plan].price,
     timestamp      |-> doc.timestamp,
     whatsappNumber |-> doc.whatsappNumber]

\* A $set that also moves the order's status.
FulfillSetWithStatus(now) ==
    [fulfilled |-> TRUE, fulfilledAt |-> now, status |-> "fulfilled"]

\* A $set that leaves fulfilledAt out.
FulfillSetFlagOnly(now) == [fulfilled |-> TRUE]

\* The $set document of fulfill_order.
FulfillSet(now) == [fulfilled |-> TRUE, fulfilledAt |-> now]

\* The query get_orders builds: a filter is a sequence, empty for None.
ListQuery(fulfilled, plan) ==
    (IF fulfilled # <<>> THEN [fulfilled |-> fulfilled[1]] ELSE <<>>)
        @@ (IF plan # <<>> THEN [plan |-> plan[1]] ELSE <<>>)

\* The rejection caught by the handler's catch-all and turned into a 500.
InvalidPlanResponse500(plan) ==
    [op |-> "generate_order", plan |-> plan,
     status |-> 500, detail |-> "Internal server error"]

\* The 400 response of generate_order.
InvalidPlanResponse(plan) ==
    [op |-> "generate_order", plan |-> plan,
     status |-> 400, detail |-> "Invalid plan type"]

\* The filter get_order and fulfill_order address a document by.
OrderQuery(order_id) == [orderId |-> order_id]

\* A fulfilment guarded on the order being pending.
FulfillQueryPending(order_id) == [orderId |-> order_id, fulfilled |-> FALSE]

\* The filter of fulfill_order's update.
FulfillQuery(order_id) == OrderQuery(order_id)

\* POST /api/generate-order
generate_order(plan, order_id, now) ==
    /\ IF plan \notin DOMAIN PLAN_DETAILS
       THEN /\ last' = InvalidPlanResponse(plan)
            /\ UNCHANGED <<orders, created>>
       ELSE /\ orders' = InsertOne(orders, OrderDoc(plan, order_id, now))
            /\ created' = Append(created, OrderDoc(plan, order_id, now))
            /\ last' = [op |-> "generate_order", plan |-> plan,
                        status |-> 200,
                        body |-> OrderResponse(plan,
                                    OrderDoc(plan, order_id, now))]
    /\ UNCHANGED stats

\* GET /api/order/{order_id}
get_order(order_id) ==
    /\ last' = IF FindOne(orders, OrderQuery(order_id)) = 0
               THEN [op |-> "get_order", order_id |-> order_id,
                     status |-> 404, detail |-> "Order not found"]
               ELSE [op |-> "get_order", order_id |-> order_id,
                     status |-> 200,
                     body |-> orders[FindOne(orders, OrderQuery(order_id))]]
    /\ UNCHANGED <<orders, created, stats>>

\* PUT /api/order/{order_id}/fulfill.  The response record also keeps, as
\* history, the matched document as it was before the update (`was`).
fulfill_order(order_id, now) ==
    /\ orders' = UpdateOne(orders, FulfillQuery(order_id), FulfillSet(now))
    /\ last' = IF MatchedCount(orders, FulfillQuery(order_id)) = 0
               THEN [op |-> "fulfill_order", order_id |-> order_id,
                     now |-> now,
                     status |-> 404, detail |-> "Order not found"]
               ELSE [op |-> "fulfill_order", order_id |-> order_id,
                     now |-> now, status |-> 200,
                     body |-> [message |-> "Order fulfilled successfully",
                               orderId |-> order_id],
                     was |-> orders[FindOne(orders, FulfillQuery(order_id))]]
    /\ UNCHANGED <<created, stats>>

\* GET /api/orders
get_orders(limit, fulfilled, plan) ==
    /\ \E found \in FindSortLimit(orders, ListQuery(fulfilled, plan), limit) :
          last' = [op |-> "get_orders", limit |-> limit,
                   fulfilled |-> fulfilled, plan |-> plan, status |-> 200,
                   body |-> [orders |-> found, count |-> Len(found)]]
    /\ UNCHANGED <<orders, created, stats>>

\* A response whose pending count adds the fulfilled count.
StatsResponseSum(total, fulfilled, snap_count, snappack_count, creator_count) ==
    [totalOrders     |-> total,
     fulfilledOrders |-> fulfilled,
     pendingOrders   |-> total + fulfilled,
     planBreakdown   |-> [snap     |-> snap_count,
                          snappack |-> snappack_count,
                          creator  |-> creator_count]]

\* The response of get_stats, from the five counts.
StatsResponse(total, fulfilled, snap_count, snappack_count, creator_count) ==
    [totalOrders     |-> total,
     fulfilledOrders |-> fulfilled,
     pendingOrders   |-> total - fulfilled,
     planBreakdown   |-> [snap     |-> snap_count,
                          snappack |-> snappack_count,
                          creator  |-> creator_count]]

\* GET /api/stats, served without another request's write in between.
get_stats ==
    /\ last' = [op |-> "get_stats", status |-> 200,
                body |-> StatsResponse(
                            CountDocuments(orders, <<>>),
                            CountDocuments(orders, [fulfilled |-> TRUE]),
                            CountDocuments(orders, [plan |-> "snap"]),
                            CountDocuments(orders, [plan |-> "snappack"]),
                            CountDocuments(orders, [plan |-> "creator"]))]
    /\ UNCHANGED <<orders, created, stats>>

\* GET /api/stats, one count query at a time: the first query ...
get_stats_total ==
    /\ stats.pc = "idle"
    /\ stats' = [pc |-> "fulfilled",
                 total_orders |-> CountDocuments(orders, <<>>)]
    /\ UNCHANGED <<orders, created, last>>

\* ... the second ...
get_stats_fulfilled ==
    /\ stats.pc = "fulfilled"
    /\ stats' = [pc |-> "snap",
                 total_orders |-> stats.total_orders,
                 fulfilled_orders |->
                     CountDocuments(orders, [fulfilled |-> TRUE])]
    /\ UNCHANGED <<orders, created, last>>

\* ... the third ...
get_stats_snap ==
    /\ stats.pc = "snap"
    /\ stats' = [pc |-> "snappack",
                 total_orders |-> stats.total_orders,
                 fulfilled_orders |-> stats.fulfilled_orders,
                 snap_orders |-> CountDocuments(orders, [plan |-> "snap"])]
    /\ UNCHANGED <<orders, created, last>>

\* ... the fourth ...
get_stats_snappack ==
    /\ stats.pc = "snappack"
    /\ stats' = [pc |-> "creator",
                 total_orders |-> stats.total_orders,
                 fulfilled_orders |-> stats.fulfilled_orders,
                 snap_orders |-> stats.snap_orders,
                 snappack_orders |->
                     CountDocuments(orders, [plan |-> "snappack"])]
    /\ UNCHANGED <<orders, created, last>>

\* ... and the fifth, with the response.
get_stats_creator ==
    /\ stats.pc = "creator"
    /\ stats' = [pc |-> "idle"]
    /\ last' = [op |-> "get_stats", status |-> 200,
                body |-> StatsResponse(
                            stats.total_orders,
                            stats.fulfilled_orders,
                            stats.snap_orders,
                            stats.snappack_orders,
                            CountDocuments(orders, [plan |-> "creator"]))]
    /\ UNCHANGED <<orders, created>>

\* GET /api/plans
get_plans ==
    /\ last' = [op |-> "get_plans", status |-> 200,
                body |-> [plans |-> PLAN_DETAILS]]
    /\ UNCHANGED <<orders, created, stats>>

----------------------------------------------------------------------------
(* The specifications.                                                     *)

\* The filters a get_orders request may carry: a sequence, empty for None.
FulfilledFilters == {<<>>, <<TRUE>>, <<FALSE>>}
PlanFilters == {<<>>} \cup {<<p>> : p \in PlanInputs}

Init ==
    /\ orders = <<>>
    /\ created = <<>>
    /\ last = [op |-> "none"]
    /\ stats = [pc |-> "idle"]

\* A request that would insert is accepted while the store is below its bound.
Accepts(plan) == plan \in DOMAIN PLAN_DETAILS => Len(orders) < MaxOrders

\* Requests served one at a time, each to completion.
Next ==
    \/ \E plan \in PlanInputs, order_id \in OrderIds, now \in Times :
          Accepts(plan) /\ generate_order(plan, order_id, now)
    \/ \E order_id \in OrderIds : get_order(order_id)
    \/ \E order_id \in OrderIds, now \in Times : fulfill_order(order_id, now)
    \/ \E limit \in 0..MaxLimit, fulfilled \in FulfilledFilters,
          plan \in PlanFilters : get_orders(limit, fulfilled, plan)
    \/ get_stats
    \/ get_plans

Spec == Init /\ [][Next]_vars

\* One get_stats request at a time, its count queries interleaved with the
\* writes of other requests.
NextConcurrent ==
    \/ \E plan \in PlanInputs, order_id \in OrderIds, now \in Times :
          Accepts(plan) /\ generate_order(plan, order_id, now)
    \/ \E order_id \in OrderIds, now \in Times : fulfill_order(order_id, now)
    \/ get_stats_total
    \/ get_stats_fulfilled
    \/ get_stats_snap
    \/ get_stats_snappack
    \/ get_stats_creator

SpecConcurrent == Init /\ [][NextConcurrent]_vars

----------------------------------------------------------------------------
(* Properties.  Under Spec every step is one request, and last' is its     *)
(* response: last'.op names the handler that ran.                          *)

\* The positions of the stored orders that carry an order id, and the one
\* a request for that id addresses (the first stored).
WithId(coll, order_id) == {i \in DOMAIN coll : coll[i].orderId = order_id}

Addressed(coll, order_id) ==
    CHOOSE i \in WithId(coll, order_id) :
        \A j \in WithId(coll, order_id) : i <= j

\* C1: generate_order with a plan code that is not a key of PLAN_DETAILS
\* answers 400 and leaves the stored documents exactly as they were.
C1_InvalidPlanRejected ==
    [][(last'.op = "generate_order" /\ last'.plan \notin {"snap", "snappack", "creator"})
          => (last'.status = 400 /\ orders' = orders)]_vars

\* An unknown plan was rejected while the store held orders.
C1_Witness ==
    /\ last.op = "generate_order"
    /\ last.plan = "vip"
    /\ last.status = 400
    /\ Len(orders) > 0

\* C2: a successful generate_order adds exactly one document and changes no
\* other; the new document is pending, has no fulfilledAt, has the initial
\* status, the requested plan and the catalog entry's attributes; the
\* response carries the new document's orderId and the catalog price.  Every
\* catalog plan is accepted.
C2_CreateOrderAddsOneRecord ==
    [][last'.op = "generate_order"
          => /\ last'.status = 200 <=> last'.plan \in DOMAIN PLAN_DETAILS
             /\ last'.status = 200 =>
                  /\ Len(orders') = Len(orders) + 1
                  /\ \A i \in DOMAIN orders : orders'[i] = orders[i]
                  /\ LET new == orders'[Len(orders')]
                         entry == PLAN_DETAILS[last'.plan]
                     IN  /\ new.fulfilled = FALSE
                         /\ "fulfilledAt" \notin DOMAIN new
                         /\ new.status = "payment_confirmed"
                         /\ new.plan = last'.plan
                         /\ new.planName = entry.name
                         /\ new.price = entry.price
                         /\ new.description = entry.description
                         /\ new.delivery = entry.delivery
                         /\ new.features = entry.features
                         /\ last'.body.orderId = new.orderId
                         /\ last'.body.price = entry.price]_vars

\* A creator order was created next to an existing, fulfilled order.
C2_Witness ==
    /\ last.op = "generate_order"
    /\ last.status = 200
    /\ last.plan = "creator"
    /\ Len(orders) = 2
    /\ orders[1].fulfilled
    /\ orders[2].orderId = last.body.orderId

\* C3: fulfill_order for an order that is already fulfilled answers 200,
\* leaves fulfilled true, sets fulfilledAt to the time of this call and
\* changes no other field of the order and no other order.
C3_FulfillIsIdempotent ==
    [][(/\ last'.op = "fulfill_order"
        /\ WithId(orders, last'.order_id) # {}
        /\ orders[Addressed(orders, last'.order_id)].fulfilled)
          => LET i == Addressed(orders, last'.order_id)
             IN  /\ last'.status = 200
                 /\ Len(orders') = Len(orders)
                 /\ orders'[i].fulfilled = TRUE
                 /\ orders'[i].fulfilledAt = last'.now
                 /\ DOMAIN orders'[i] = DOMAIN orders[i]
                 /\ \A k \in DOMAIN orders[i] \ {"fulfilledAt"} :
                       orders'[i][k] = orders[i][k]
                 /\ \A j \in DOMAIN orders \ {i} : orders'[j] = orders[j]]_vars

\* A fulfilled order was fulfilled again, at another time than before.
C3_Witness ==
    /\ last.op = "fulfill_order"
    /\ last.status = 200
    /\ last.was.fulfilled
    /\ last.was.fulfilledAt # last.now
    /\ \E i \in DOMAIN orders :
          /\ orders[i].orderId = last.order_id
          /\ orders[i].fulfilledAt = last.now

\* C4: fulfill_order with an id no stored order carries answers 404 and
\* leaves the store as it was: nothing inserted, nothing modified.
C4_FulfillUnknownIsNotFound ==
    [][(last'.op = "fulfill_order" /\ WithId(orders, last'.order_id) = {})
          => (last'.status = 404 /\ orders' = orders)]_vars

\* An unknown id was refused while the store held a pending order.
C4_Witness ==
    /\ last.op = "fulfill_order"
    /\ last.status = 404
    /\ Len(orders) = 1
    /\ orders[1].orderId # last.order_id
    /\ ~orders[1].fulfilled

\* C5: no step removes a stored order, and no step takes a fulfilled order
\* back to pending.
C5_FulfilledIsOneWay ==
    [][\A i \in DOMAIN orders :
          /\ i \in DOMAIN orders'
          /\ orders'[i].orderId = orders[i].orderId
          /\ orders[i].fulfilled => orders'[i].fulfilled]_vars

\* A fulfilled order is still stored, fulfilled, after a later order with
\* the same id was created.
C5_Witness ==
    /\ last.op = "generate_order"
    /\ last.status = 200
    /\ Len(orders) = 2
    /\ orders[1].fulfilled
    /\ orders[1].orderId = orders[2].orderId

\* The fields an order is created with and keeps.
CreationFields ==
    {"plan", "planName", "price", "description", "delivery", "features",
     "timestamp", "status", "whatsappNumber"}

Snapshot(doc) == [k \in CreationFields \cap DOMAIN doc |-> doc[k]]

\* What C6 says of the store, apart from the lookup by id: after every step
\* each stored order has the creation fields its order_doc was inserted
\* with; get_order, get_orders, get_stats and get_plans leave the store as
\* it was; fulfill_order changes at most the fields fulfilled and
\* fulfilledAt of one order that carries the requested id.
FrameIsKept ==
    /\ Len(created') = Len(orders')
    /\ \A i \in DOMAIN orders' :
          /\ DOMAIN Snapshot(orders'[i]) = CreationFields
          /\ Snapshot(orders'[i]) = Snapshot(created'[i])
          /\ orders'[i].orderId = created'[i].orderId
    /\ last'.op \in {"get_order", "get_orders", "get_stats", "get_plans"}
          => orders' = orders
    /\ last'.op = "fulfill_order"
          => /\ Len(orders') = Len(orders)
             /\ \A i \in DOMAIN orders :
                   \/ orders'[i] = orders[i]
                   \/ /\ orders[i].orderId = last'.order_id
                      /\ \A j \in DOMAIN orders \ {i} : orders'[j] = orders[j]
                      /\ DOMAIN orders'[i] =
                            DOMAIN orders[i] \cup {"fulfilled", "fulfilledAt"}
                      /\ \A k \in DOMAIN orders[i] \ {"fulfilled", "fulfilledAt"} :
                            orders'[i][k] = orders[i][k]

\* C6: for every created order, after any later steps, get_order with its
\* id answers 200 with the creation fields that order was created with;
\* fulfill_order changes only fulfilled and fulfilledAt of the order it
\* targets, and the read handlers change nothing in the store.
C6_GetOrderReturnsCreationSnapshot ==
    [][/\ FrameIsKept
       /\ last'.op = "get_order"
             => \A i \in DOMAIN created :
                   created[i].orderId = last'.order_id
                      => /\ last'.status = 200
                         /\ Snapshot(last'.body) = Snapshot(created[i])]_vars

\* C6, for the orders whose id no other order was given: the same, with
\* get_order answering for the first stored order that carries the id (and
\* 404 when none does).
C6_FirstOrderOfIdKeepsSnapshot ==
    [][/\ FrameIsKept
       /\ last'.op = "get_order"
             => IF WithId(orders, last'.order_id) = {}
                THEN last'.status = 404
                ELSE /\ last'.status = 200
                     /\ last'.body = orders[Addressed(orders, last'.order_id)]
                     /\ Snapshot(last'.body) =
                           Snapshot(created[Addressed(orders, last'.order_id)])]_vars

\* The filters of a get_orders request, read on a stored order.
Satisfies(doc, fulfilled, plan) ==
    /\ fulfilled # <<>> => doc.fulfilled = fulfilled[1]
    /\ plan # <<>> => doc.plan = plan[1]

Satisfying(coll, fulfilled, plan) ==
    {i \in DOMAIN coll : Satisfies(coll[i], fulfilled, plan)}

\* The response `resp` of a get_orders request lists `size` of the stored
\* orders that satisfy its filters, the most recent ones, most recent
\* first, and reports that number as its count.
ListsMostRecent(coll, resp, size) ==
    LET found == resp.body.orders
        able == Satisfying(coll, resp.fulfilled, resp.plan)
    IN  /\ resp.status = 200
        /\ Len(found) = size
        /\ resp.body.count = Len(found)
        /\ \A a, b \in DOMAIN found :
              a < b => found[a].timestamp >= found[b].timestamp
        /\ \E at \in [DOMAIN found -> able] :
              /\ \A a, b \in DOMAIN found : a # b => at[a] # at[b]
              /\ \A a \in DOMAIN found : found[a] = coll[at[a]]
              /\ \A a \in DOMAIN found :
                    \A i \in able \ {at[b] : b \in DOMAIN found} :
                       coll[i].timestamp <= found[a].timestamp

\* C7, as claimed: for every limit L >= 0 get_orders returns min(L, m) of the
\* m stored orders that satisfy the filters, the most recent ones in
\* descending timestamp order, and count is the number returned.
C7_ListReturnsMinLimit ==
    [][last'.op = "get_orders"
          => ListsMostRecent(orders, last',
                Min(last'.limit,
                    Cardinality(Satisfying(orders, last'.fulfilled,
                                           last'.plan))))]_vars

\* C7, amended: that holds for every limit L >= 1; with limit 0 get_orders
\* returns all m orders that satisfy the filters, in descending timestamp
\* order, and count is m.
C7_ListReturnsMinLimitOrAll ==
    [][last'.op = "get_orders"
          => ListsMostRecent(orders, last',
                IF last'.limit = 0
                THEN Cardinality(Satisfying(orders, last'.fulfilled,
                                            last'.plan))
                ELSE Min(last'.limit,
                         Cardinality(Satisfying(orders, last'.fulfilled,
                                                last'.plan))))]_vars

\* One of two pending snap orders was listed, the more recent one.
C7_Witness ==
    /\ last.op = "get_orders"
    /\ last.limit = 1
    /\ last.fulfilled = <<FALSE>>
    /\ last.plan = <<"snap">>
    /\ last.body.count = 1
    /\ Len(orders) = 2
    /\ Satisfying(orders, <<FALSE>>, <<"snap">>) = {1, 2}
    /\ orders[1].timestamp > orders[2].timestamp
    /\ last.body.orders[1] = orders[1]

\* The sum of a stats response's plan breakdown.
BreakdownSum(body) ==
    body.planBreakdown.snap + body.planBreakdown.snappack
        + body.planBreakdown.creator

\* C8, as claimed: every get_stats response has pendingOrders equal to
\* totalOrders - fulfilledOrders and a plan breakdown that sums to at most
\* totalOrders, also when writes reach the store between its count queries.
C8_StatsAreConsistent ==
    last.op = "get_stats"
        => /\ last.body.pendingOrders =
                 last.body.totalOrders - last.body.fulfilledOrders
           /\ BreakdownSum(last.body) <= last.body.totalOrders

\* C8, amended: every get_stats response has pendingOrders equal to
\* totalOrders - fulfilledOrders; its plan breakdown sums to at most the
\* number of orders stored when the response is sent, and to at most
\* totalOrders when no order was created since the first count query.
C8_StatsAreConsistentWithoutWrites ==
    last.op = "get_stats"
        => /\ last.body.pendingOrders =
                 last.body.totalOrders - last.body.fulfilledOrders
           /\ BreakdownSum(last.body) <= Len(orders)
           /\ Len(orders) = last.body.totalOrders
                 => BreakdownSum(last.body) <= last.body.totalOrders

\* A response whose count queries were overtaken by the creation and the
\* fulfilment of an order.
C8_Witness ==
    /\ last.op = "get_stats"
    /\ last.body.totalOrders = 1
    /\ last.body.fulfilledOrders = 2
    /\ last.body.pendingOrders = -1
    /\ BreakdownSum(last.body) = 2

\* C9: no two stored orders carry the same orderId.
C9_OrderIdsAreUnique ==
    \A i, j \in DOMAIN orders :
        i # j => orders[i].orderId # orders[j].orderId

\* C10: a stored order has a fulfilledAt field exactly when its fulfilled
\* flag is true.
C10_FulfilledAtIffFulfilled ==
    \A i \in DOMAIN orders :
        "fulfilledAt" \in DOMAIN orders[i] <=> orders[i].fulfilled

\* A fulfilled order with its fulfilledAt next to a pending one without.
C10_Witness ==
    /\ Len(orders) = 2
    /\ orders[1].fulfilled
    /\ "fulfilledAt" \in DOMAIN orders[1]
    /\ ~orders[2].fulfilled
    /\ "fulfilledAt" \notin DOMAIN orders[2]
    /\ last.op = "fulfill_order"

====
